---------------------------- MODULE Spec2Model ----------------------------
(***************************************************************************)
(* A model of the QuitNow progress tracker (src/main.js): the temporal     *)
(* metrics functions (calculateTimeElapsed, calculateStats,                *)
(* calculateHealthRegeneration, calculateHealthBenefits) and the update    *)
(* scheduler (renderTracker, startTimer/update, startTracking,             *)
(* confirmReset, the visibilitychange handler).                            *)
(*                                                                         *)
(* Numbers.  JavaScript computes with doubles on epoch milliseconds, which *)
(* exceed TLC's 32-bit integers.  A time value (an instant or a duration)  *)
(* is therefore the pair [d, ms] standing for d * 86,400,000 + ms          *)
(* milliseconds with 0 <= ms < 86,400,000 (d may be negative), and an      *)
(* amount of money is the pair [dol, c] standing for 100 * dol + c cents   *)
(* with 0 <= c < 100.  Quotients are never formed: floor(a / b) and        *)
(* round(a / b) are computed exactly.  The model therefore follows the     *)
(* code up to the rounding error of double arithmetic.                     *)
(*                                                                         *)
(* Strings whose content the code inspects or produces (stored             *)
(* preferences, toFixed and padStart results) are sequences of             *)
(* one-character strings.                                                  *)
(***************************************************************************)
EXTENDS Integers, Sequences, FiniteSets, TLC

(***************************************************************************)
(* Time values                                                             *)
(***************************************************************************)
MsPerDay == 1000 * 60 * 60 * 24
MsPerHour == 1000 * 60 * 60
MsPerMinute == 1000 * 60

T(d, ms) == [d |-> d, ms |-> ms]

\* a (small) signed number of milliseconds as a time value
Ms(n) == [d |-> n \div MsPerDay, ms |-> n % MsPerDay]

\* a whole number of days
Days(n) == [d |-> n, ms |-> 0]

TZero == T(0, 0)

TAdd(a, b) ==
    LET s == a.ms + b.ms
    IN  [d |-> a.d + b.d + (s \div MsPerDay), ms |-> s % MsPerDay]

TNeg(a) ==
    IF a.ms = 0 THEN [d |-> -a.d, ms |-> 0]
    ELSE [d |-> -a.d - 1, ms |-> MsPerDay - a.ms]

\* a - b
TSub(a, b) == TAdd(a, TNeg(b))

\* a <= b, a < b
TLeq(a, b) == a.d < b.d \/ (a.d = b.d /\ a.ms <= b.ms)
TLess(a, b) == a.d < b.d \/ (a.d = b.d /\ a.ms < b.ms)

\* a * k for an integer k
TMulNat(a, k) ==
    LET s  == (a.ms \div 1000) * k
        r  == (a.ms % 1000) * k
        ts == s + (r \div 1000)
    IN  [d |-> a.d * k + (ts \div 86400), ms |-> (ts % 86400) * 1000 + (r % 1000)]

TMul(a, k) == IF k >= 0 THEN TMulNat(a, k) ELSE TNeg(TMulNat(a, -k))

\* floor(n / den) for time values n >= 0, den > 0 with a quotient below 256
RECURSIVE TDivStep(_, _, _, _)
TDivStep(n, den, q, b) ==
    IF b = 0 THEN q
    ELSE IF TLeq(TMul(den, q + b), n) THEN TDivStep(n, den, q + b, b \div 2)
         ELSE TDivStep(n, den, q, b \div 2)

TDivFloor(n, den) == TDivStep(n, den, 0, 128)

\* Math.round(n / den): the nearest integer, a half rounding up
MathRoundRatio(n, den) == TDivFloor(TAdd(TMul(n, 2), den), TMul(den, 2))

Min(a, b) == IF a <= b THEN a ELSE b

(***************************************************************************)
(* Strings as sequences of characters                                      *)
(***************************************************************************)
DigitChars == <<"0", "1", "2", "3", "4", "5", "6", "7", "8", "9">>

IsDigit(c) == \E i \in 1..10 : DigitChars[i] = c

DigitVal(c) == (CHOOSE i \in 1..10 : DigitChars[i] = c) - 1

\* String(n) for an integer n
RECURSIVE NatToStr(_)
NatToStr(n) ==
    IF n < 10 THEN <<DigitChars[n + 1]>>
    ELSE NatToStr(n \div 10) \o <<DigitChars[(n % 10) + 1]>>

IntToStr(n) == IF n < 0 THEN <<"-">> \o NatToStr(-n) ELSE NatToStr(n)

\* the length of the longest prefix of s made of digits
RECURSIVE DigitPrefixLen(_)
DigitPrefixLen(s) ==
    IF s = <<>> \/ ~IsDigit(Head(s)) THEN 0 ELSE 1 + DigitPrefixLen(Tail(s))

\* the number written by a sequence of digits
RECURSIVE DigitsVal(_)
DigitsVal(s) ==
    IF s = <<>> THEN 0
    ELSE DigitsVal(SubSeq(s, 1, Len(s) - 1)) * 10 + DigitVal(s[Len(s)])

\* s.padStart(2, '0')
PadStart2(s) == IF Len(s) < 2 THEN <<"0">> \o s ELSE s

(***************************************************************************)
(* JavaScript numbers that may be NaN or undefined                         *)
(***************************************************************************)
Num(v) == [t |-> "num", v |-> v]
NaN == [t |-> "nan", v |-> 0]
Undefined == [t |-> "undefined", v |-> 0]

\* an amount of money: 100 * dol + c cents
Money(dol, c) == [dol |-> dol, c |-> c]
MoneyNum(dol, c) == [t |-> "num", v |-> Money(dol, c)]
MoneyNaN == [t |-> "nan", v |-> Money(0, 0)]
MoneyUndefined == [t |-> "undefined", v |-> Money(0, 0)]

MNeg(m) ==
    IF m.c = 0 THEN Money(-m.dol, 0) ELSE Money(-m.dol - 1, 100 - m.c)

MMulNat(m, k) ==
    LET cc == m.c * (k % 100)
    IN  Money(m.dol * k + m.c * (k \div 100) + (cc \div 100), cc % 100)

\* k * m for an integer k
MMul(m, k) == IF k >= 0 THEN MMulNat(m, k) ELSE MNeg(MMulNat(m, -k))

MLeq(a, b) == a.dol < b.dol \/ (a.dol = b.dol /\ a.c <= b.c)

MMin(a, b) == IF MLeq(a, b) THEN a ELSE b

\* m.toFixed(2) for an amount of whole cents
toFixed2(m) ==
    LET neg == m.dol < 0
        a   == IF neg THEN MNeg(m) ELSE m
    IN  (IF neg THEN <<"-">> ELSE <<>>)
        \o NatToStr(a.dol) \o <<".">> \o PadStart2(NatToStr(a.c))

\* a stored string, or null (localStorage.getItem of a missing key)
Str(s) == [has |-> TRUE, s |-> s]
Null == [has |-> FALSE, s |-> <<>>]

\* parseInt(s): an optional sign and the leading digits; NaN without digits
parseInt(s) ==
    LET neg  == s # <<>> /\ Head(s) = "-"
        body == IF s # <<>> /\ Head(s) \in {"-", "+"} THEN Tail(s) ELSE s
        n    == DigitPrefixLen(body)
        v    == DigitsVal(SubSeq(body, 1, n))
    IN  IF n = 0 THEN NaN ELSE Num(IF neg THEN -v ELSE v)

\* parseFloat(s) in cents: an optional sign, digits, an optional fraction
\* (of which two digits are kept; the inputs drawn have no more)
parseFloat(s) ==
    LET neg  == s # <<>> /\ Head(s) = "-"
        body == IF s # <<>> /\ Head(s) \in {"-", "+"} THEN Tail(s) ELSE s
        n    == DigitPrefixLen(body)
        rest == SubSeq(body, n + 1, Len(body))
        frac == IF rest # <<>> /\ Head(rest) = "." THEN Tail(rest) ELSE <<>>
        fn   == DigitPrefixLen(frac)
        f2   == SubSeq(SubSeq(frac, 1, Min(fn, 2)) \o <<"0", "0">>, 1, 2)
        m    == Money(DigitsVal(SubSeq(body, 1, n)),
                      IF fn = 0 THEN 0 ELSE DigitsVal(f2))
    IN  IF n = 0 /\ fn = 0 THEN MoneyNaN
        ELSE [t |-> "num", v |-> IF neg THEN MNeg(m) ELSE m]

(***************************************************************************)
(* Dates and the local time zone                                           *)
(*                                                                         *)
(* A Date is its epoch time value.  The local zone is a rule with one      *)
(* offset change (a daylight-saving switch): local time = UTC + before     *)
(* for instants earlier than at, UTC + after from at on (milliseconds).    *)
(***************************************************************************)
tzOffset(date, zone) ==
    IF TLess(date, zone.at) THEN zone.before ELSE zone.after

\* Date.UTC(date.getFullYear(), date.getMonth(), date.getDate(),
\*          date.getHours(), date.getMinutes(), date.getSeconds()):
\* the local wall-clock reading of date, without its milliseconds, read as
\* if it were UTC
localAsUTC(date, zone) ==
    LET l == TAdd(date, Ms(tzOffset(date, zone)))
    IN  [d |-> l.d, ms |-> l.ms - (l.ms % 1000)]

(***************************************************************************)
(* Constants and tables                                                    *)
(***************************************************************************)
DEFAULT_CIGARETTES_PER_DAY == 20
DEFAULT_COST_PER_PACK == 10
CIGARETTES_PER_PACK == 20
maxDays == 36500
maxMoney == Money(999999999, 99)
healthUpdatePeriod == 5000
timerPeriod == 1000
resetDelay == 200

\* names keep the source's text except that its three non-ASCII symbols
\* are spelled (down), (up) and ~
milestones == <<
    [days |-> T(0, 1209600), progress |-> 2, name |-> "Heart rate normalizes"],
    [days |-> T(0, 43200000), progress |-> 5, name |-> "Blood pressure drops"],
    [days |-> Days(1), progress |-> 8, name |-> "Oxygen in blood rises"],
    [days |-> Days(7), progress |-> 15, name |-> "Breathing easier"],
    [days |-> Days(14), progress |-> 25, name |-> "Circulation improves"],
    [days |-> Days(30), progress |-> 40, name |-> "Lung function improves"],
    [days |-> Days(60), progress |-> 55, name |-> "Better lung function"],
    [days |-> Days(90), progress |-> 65, name |-> "Sperm quality improves"],
    [days |-> Days(180), progress |-> 75, name |-> "Depression risk decreases"],
    [days |-> Days(365), progress |-> 85, name |-> "Heart disease risk drops"],
    [days |-> Days(730), progress |-> 92, name |-> "Stroke risk drops"],
    [days |-> Days(1825), progress |-> 96, name |-> "Chronic bronchitis risk drops"],
    [days |-> Days(3650), progress |-> 98, name |-> "Lung cancer risk drops"],
    [days |-> Days(5475), progress |-> 100, name |-> "Heart disease risk ~ non-smoker"]
>>

\* the details text of a benefit is copied to the result unchanged and is
\* left out
allBenefits == <<
    [name |-> "Heart Rate Normalizes", timeframe |-> "20 minutes", targetDays |-> T(0, 1209600), category |-> "Heart"],
    [name |-> "Blood Pressure Drops", timeframe |-> "12 hours", targetDays |-> T(0, 43200000), category |-> "Heart"],
    [name |-> "Oxygen in Blood Rises", timeframe |-> "1 day", targetDays |-> Days(1), category |-> "Heart"],
    [name |-> "Heart Attack Risk Decreases", timeframe |-> "1 day", targetDays |-> Days(1), category |-> "Heart"],
    [name |-> "Circulation Improves", timeframe |-> "2 weeks", targetDays |-> Days(14), category |-> "Heart"],
    [name |-> "Reduced Blood Clots Risk", timeframe |-> "2 weeks", targetDays |-> Days(14), category |-> "Heart"],
    [name |-> "Arteries Less Inflamed", timeframe |-> "2 weeks", targetDays |-> Days(14), category |-> "Heart"],
    [name |-> "Coronary Heart Disease Risk (down)", timeframe |-> "1 year", targetDays |-> Days(365), category |-> "Heart"],
    [name |-> "Stroke Risk Drops", timeframe |-> "2 years", targetDays |-> Days(730), category |-> "Heart"],
    [name |-> "Heart Disease Risk ~ Non-Smoker", timeframe |-> "15 years", targetDays |-> Days(5475), category |-> "Heart"],
    [name |-> "Breathing Easier", timeframe |-> "1 week", targetDays |-> Days(7), category |-> "Lung"],
    [name |-> "Less Coughing", timeframe |-> "2 weeks", targetDays |-> Days(14), category |-> "Lung"],
    [name |-> "Lung Cilia Start Repairing", timeframe |-> "1 month", targetDays |-> Days(30), category |-> "Lung"],
    [name |-> "Shortness of Breath (down)", timeframe |-> "1 month", targetDays |-> Days(30), category |-> "Lung"],
    [name |-> "Mucus Production Decreases", timeframe |-> "1 month", targetDays |-> Days(30), category |-> "Lung"],
    [name |-> "Lung Function Improves", timeframe |-> "2 months", targetDays |-> Days(60), category |-> "Lung"],
    [name |-> "Fewer Respiratory Infections", timeframe |-> "2 months", targetDays |-> Days(60), category |-> "Lung"],
    [name |-> "Asthma Flare-ups Decrease", timeframe |-> "1 month", targetDays |-> Days(30), category |-> "Lung"],
    [name |-> "Oxygen Efficiency (up) During Exercise", timeframe |-> "1 month", targetDays |-> Days(30), category |-> "Lung"],
    [name |-> "COPD Progression Slows", timeframe |-> "1 month", targetDays |-> Days(30), category |-> "Lung"],
    [name |-> "Chronic Bronchitis Risk (down)", timeframe |-> "5 years", targetDays |-> Days(1825), category |-> "Lung"],
    [name |-> "Lung Cancer Risk Starts Dropping", timeframe |-> "10 years", targetDays |-> Days(3650), category |-> "Lung"],
    [name |-> "Lung Cancer Risk Continues (down)", timeframe |-> "15 years", targetDays |-> Days(5475), category |-> "Lung"],
    [name |-> "Sense of Taste Improves", timeframe |-> "48 hours", targetDays |-> Days(2), category |-> "Body"],
    [name |-> "Sense of Smell Improves", timeframe |-> "48 hours", targetDays |-> Days(2), category |-> "Body"],
    [name |-> "Body Odor Improves", timeframe |-> "1 week", targetDays |-> Days(7), category |-> "Body"],
    [name |-> "Energy Levels Increase", timeframe |-> "2 weeks", targetDays |-> Days(14), category |-> "Body"],
    [name |-> "Fatigue Decreases", timeframe |-> "2 weeks", targetDays |-> Days(14), category |-> "Body"],
    [name |-> "Better Wound Healing", timeframe |-> "2 weeks", targetDays |-> Days(14), category |-> "Body"],
    [name |-> "Protein Synthesis Improves", timeframe |-> "2 weeks", targetDays |-> Days(14), category |-> "Body"],
    [name |-> "Stronger Immune Function", timeframe |-> "2 weeks", targetDays |-> Days(14), category |-> "Body"],
    [name |-> "Muscle Recovery Enhances", timeframe |-> "1 month", targetDays |-> Days(30), category |-> "Body"],
    [name |-> "Healthier Skin Tone", timeframe |-> "1 month", targetDays |-> Days(30), category |-> "Body"],
    [name |-> "Hair Health Improves", timeframe |-> "1 month", targetDays |-> Days(30), category |-> "Body"],
    [name |-> "Voice Quality Improves", timeframe |-> "1 month", targetDays |-> Days(30), category |-> "Body"],
    [name |-> "Cholesterol Levels Improve", timeframe |-> "1 month", targetDays |-> Days(30), category |-> "Body"],
    [name |-> "Liver Function Improves", timeframe |-> "1 month", targetDays |-> Days(30), category |-> "Body"],
    [name |-> "Kidney Function Improves", timeframe |-> "1 month", targetDays |-> Days(30), category |-> "Body"],
    [name |-> "Joint Health Improves", timeframe |-> "1 month", targetDays |-> Days(30), category |-> "Body"],
    [name |-> "Gum Inflammation Decreases", timeframe |-> "2 weeks", targetDays |-> Days(14), category |-> "Body"],
    [name |-> "Teeth Health Improves", timeframe |-> "2 weeks", targetDays |-> Days(14), category |-> "Body"],
    [name |-> "Teeth Whitening Begins", timeframe |-> "1 month", targetDays |-> Days(30), category |-> "Body"],
    [name |-> "Stomach Acidity Normalizes", timeframe |-> "2 weeks", targetDays |-> Days(14), category |-> "Body"],
    [name |-> "Eye Health Improves", timeframe |-> "1 month", targetDays |-> Days(30), category |-> "Body"],
    [name |-> "DNA Damage Repair Begins", timeframe |-> "1 month", targetDays |-> Days(30), category |-> "Body"],
    [name |-> "DNA Repair Mechanisms Enhance", timeframe |-> "3 months", targetDays |-> Days(90), category |-> "Body"],
    [name |-> "Metabolism Normalizes", timeframe |-> "3 months", targetDays |-> Days(90), category |-> "Body"],
    [name |-> "Sleep Apnea Improves", timeframe |-> "3 months", targetDays |-> Days(90), category |-> "Body"],
    [name |-> "Sperm Count & Quality (up)", timeframe |-> "3 months", targetDays |-> Days(90), category |-> "Body"],
    [name |-> "Fewer Wrinkles Over Time", timeframe |-> "1 year", targetDays |-> Days(365), category |-> "Body"],
    [name |-> "Bone Density Loss Slows", timeframe |-> "1 year", targetDays |-> Days(365), category |-> "Body"],
    [name |-> "Fracture Risk Decreases", timeframe |-> "1 year", targetDays |-> Days(365), category |-> "Body"],
    [name |-> "Tooth Loss Risk Decreases", timeframe |-> "1 year", targetDays |-> Days(365), category |-> "Body"],
    [name |-> "Life Expectancy Increases", timeframe |-> "1 year", targetDays |-> Days(365), category |-> "Body"],
    [name |-> "Overall Mortality Risk (down)", timeframe |-> "1 year", targetDays |-> Days(365), category |-> "Body"],
    [name |-> "Premature Aging Slows", timeframe |-> "1 year", targetDays |-> Days(365), category |-> "Body"],
    [name |-> "Type 2 Diabetes Risk (down)", timeframe |-> "2 years", targetDays |-> Days(730), category |-> "Body"],
    [name |-> "Improved Libido", timeframe |-> "2 weeks", targetDays |-> Days(14), category |-> "Sex"],
    [name |-> "Erectile Function Improves", timeframe |-> "2 weeks", targetDays |-> Days(14), category |-> "Sex"],
    [name |-> "Stronger Boner", timeframe |-> "1 month", targetDays |-> Days(30), category |-> "Sex"],
    [name |-> "Better Blood Flow to Genitals", timeframe |-> "2 weeks", targetDays |-> Days(14), category |-> "Sex"],
    [name |-> "Increased Testosterone Production", timeframe |-> "1 month", targetDays |-> Days(30), category |-> "Sex"],
    [name |-> "Enhanced Sexual Stamina", timeframe |-> "1 month", targetDays |-> Days(30), category |-> "Sex"],
    [name |-> "Improved Sperm Motility", timeframe |-> "3 months", targetDays |-> Days(90), category |-> "Sex"],
    [name |-> "Reduced Erectile Dysfunction Risk", timeframe |-> "3 months", targetDays |-> Days(90), category |-> "Sex"],
    [name |-> "Better Sexual Performance", timeframe |-> "3 months", targetDays |-> Days(90), category |-> "Sex"],
    [name |-> "Increased Sexual Satisfaction", timeframe |-> "6 months", targetDays |-> Days(180), category |-> "Sex"],
    [name |-> "Libido Fully Recovered", timeframe |-> "1 year", targetDays |-> Days(365), category |-> "Sex"],
    [name |-> "Long-term Impotence Risk (down)", timeframe |-> "2 years", targetDays |-> Days(730), category |-> "Sex"],
    [name |-> "Anxiety About Health (down)", timeframe |-> "Immediate", targetDays |-> Days(0), category |-> "Mind"],
    [name |-> "Cravings Start to Decrease", timeframe |-> "1 week", targetDays |-> Days(7), category |-> "Mind"],
    [name |-> "Sleep Quality Improves", timeframe |-> "1 week", targetDays |-> Days(7), category |-> "Mind"],
    [name |-> "Confidence in Quitting (up)", timeframe |-> "1 week", targetDays |-> Days(7), category |-> "Mind"],
    [name |-> "Improved Concentration", timeframe |-> "2 weeks", targetDays |-> Days(14), category |-> "Mind"],
    [name |-> "Mood Stabilization", timeframe |-> "2 weeks", targetDays |-> Days(14), category |-> "Mind"],
    [name |-> "Reduced Stress from Nicotine", timeframe |-> "2 weeks", targetDays |-> Days(14), category |-> "Mind"],
    [name |-> "Mental Clarity Improves", timeframe |-> "2 weeks", targetDays |-> Days(14), category |-> "Mind"],
    [name |-> "Depression Risk Decreases", timeframe |-> "6 months", targetDays |-> Days(180), category |-> "Mind"],
    [name |-> "Cognitive Function Protects", timeframe |-> "10 years", targetDays |-> Days(3650), category |-> "Mind"]
>>

(***************************************************************************)
(* calculateTimeElapsed                                                    *)
(***************************************************************************)
\* calculateTimeElapsed with the hours not reduced modulo a day: a variant
\* that C12_ElapsedDecomposition tells from calculateTimeElapsed
calculateTimeElapsedNoModulo(quitDate, clock) ==
    IF TLeq(TSub(clock, quitDate), TZero)
    THEN [days |-> 0, hours |-> 0, minutes |-> 0, seconds |-> 0, totalMs |-> TZero]
    ELSE [days |-> TSub(clock, quitDate).d,
          hours |-> TSub(clock, quitDate).d * 24
                    + TSub(clock, quitDate).ms \div MsPerHour,
          minutes |-> (TSub(clock, quitDate).ms % MsPerHour) \div MsPerMinute,
          seconds |-> (TSub(clock, quitDate).ms % MsPerMinute) \div 1000,
          totalMs |-> TSub(clock, quitDate)]

\* calculateTimeElapsed without the branch for diff <= 0: a variant that
\* C13_ElapsedZeroForFuture tells from calculateTimeElapsed
calculateTimeElapsedUnguarded(quitDate, clock) ==
    [days |-> TSub(clock, quitDate).d,
     hours |-> TSub(clock, quitDate).ms \div MsPerHour,
     minutes |-> (TSub(clock, quitDate).ms % MsPerHour) \div MsPerMinute,
     seconds |-> (TSub(clock, quitDate).ms % MsPerMinute) \div 1000,
     totalMs |-> TSub(clock, quitDate)]

calculateTimeElapsed(quitDate, clock) ==
    LET diff == TSub(clock, quitDate)
    IN  IF TLeq(diff, TZero)
        THEN [days |-> 0, hours |-> 0, minutes |-> 0, seconds |-> 0,
              totalMs |-> TZero]
        ELSE [days |-> diff.d,
              hours |-> diff.ms \div MsPerHour,
              minutes |-> (diff.ms % MsPerHour) \div MsPerMinute,
              seconds |-> (diff.ms % MsPerMinute) \div 1000,
              totalMs |-> diff]

(***************************************************************************)
(* calculateStats                                                          *)
(***************************************************************************)
\* nowUTC - quitUTC of the three functions that "use UTC"
utcDiff(quitDate, clock, zone) ==
    TSub(localAsUTC(clock, zone), localAsUTC(quitDate, zone))

zeroStats ==
    [cigarettesAvoided |-> 0, packsAvoided |-> 0,
     moneySaved |-> <<"0", ".", "0", "0">>, daysQuit |-> 0]

\* a default parameter value: used when the argument is undefined
defaultParam(arg, dflt) == IF arg.t = "undefined" THEN dflt ELSE arg

\* if (stored) value = parse(stored) || value, for an integer
storedCigarettesOr(stored, value) ==
    IF stored.has /\ stored.s # <<>>
    THEN LET p == parseInt(stored.s)
         IN  IF p.t = "nan" \/ p.v = 0 THEN value ELSE p
    ELSE value

\* if (stored) value = parse(stored) || value, for an amount
storedCostOr(stored, value) ==
    IF stored.has /\ stored.s # <<>>
    THEN LET p == parseFloat(stored.s)
         IN  IF p.t = "nan" \/ p.v = Money(0, 0) THEN value ELSE p
    ELSE value

calculateStats(quitDate, cigarettesPerDayArg, costPerPackArg, clock, zone, store) ==
    LET cigarettesPerDay ==
            storedCigarettesOr(store.cigarettesPerDay,
                defaultParam(cigarettesPerDayArg, Num(DEFAULT_CIGARETTES_PER_DAY))).v
        costPerPack ==
            storedCostOr(store.costPerPack,
                defaultParam(costPerPackArg, MoneyNum(DEFAULT_COST_PER_PACK, 0))).v
        diff == utcDiff(quitDate, clock, zone)
    IN  IF TLeq(diff, TZero) THEN zeroStats
        ELSE LET safeDays == IF TLeq(Days(maxDays), diff) THEN Days(maxDays) ELSE diff
                 cigarettesAvoided == TMul(safeDays, cigarettesPerDay).d
                 packsAvoided == cigarettesAvoided \div CIGARETTES_PER_PACK
                 moneySaved == toFixed2(MMin(MMul(costPerPack, packsAvoided), maxMoney))
             IN  [cigarettesAvoided |-> cigarettesAvoided,
                  packsAvoided |-> packsAvoided,
                  moneySaved |-> moneySaved,
                  daysQuit |-> safeDays.d]

(***************************************************************************)
(* calculateHealthRegeneration                                             *)
(***************************************************************************)
NoMilestone == [has |-> FALSE, m |-> [days |-> TZero, progress |-> 0, name |-> ""]]
SomeMilestone(m) == [has |-> TRUE, m |-> m]
NoTime == [has |-> FALSE, v |-> TZero]
SomeTime(v) == [has |-> TRUE, v |-> v]

\* Math.round(prev.progress + (curr.progress - prev.progress) * progressRatio)
\* with progressRatio = Math.min(1, progress / range)
interpolate(prev, curr, days) ==
    LET range == TSub(curr.days, prev.days)
        progress == TSub(days, prev.days)
        dp == curr.progress - prev.progress
    IN  IF TLeq(range, progress) THEN prev.progress + dp
        ELSE prev.progress + MathRoundRatio(TMul(progress, dp), range)

\* the loop over the milestones from index i on, percentage being the value
\* reached so far
RECURSIVE milestoneScan(_, _, _)
milestoneScan(days, i, percentage) ==
    IF i > Len(milestones)
    THEN [percentage |-> percentage, nextMilestone |-> NoMilestone,
          timeToNext |-> NoTime]
    ELSE IF TLeq(milestones[i].days, days)
         THEN milestoneScan(days, i + 1, milestones[i].progress)
         ELSE [percentage |->
                   IF i > 1 THEN interpolate(milestones[i - 1], milestones[i], days)
                   ELSE percentage,
               nextMilestone |-> SomeMilestone(milestones[i]),
               timeToNext |-> SomeTime(TSub(milestones[i].days, days))]

calculateHealthRegeneration(quitDate, clock, zone) ==
    LET diff == utcDiff(quitDate, clock, zone)
    IN  IF TLeq(diff, TZero)
        THEN [percentage |-> 0, days |-> 0,
              nextMilestone |-> SomeMilestone(milestones[1]),
              timeToNext |-> SomeTime(milestones[1].days)]
        ELSE LET r == milestoneScan(diff, 1, 0)
             IN  [percentage |-> Min(100, r.percentage), days |-> diff.d,
                  nextMilestone |-> r.nextMilestone, timeToNext |-> r.timeToNext]

(***************************************************************************)
(* calculateHealthBenefits                                                 *)
(***************************************************************************)
\* Math.min(100, Math.round((days / targetDays) * 100)) for days > 0; a
\* targetDays of 0 makes the quotient Infinity.  A quotient of 100 or more
\* is not computed: the minimum is 100.
benefitProgress(days, targetDays) ==
    IF targetDays = TZero \/ TLeq(TMul(targetDays, 100), TMul(days, 100)) THEN 100
    ELSE Min(100, MathRoundRatio(TMul(days, 100), targetDays))

\* array.sort((a, b) => a.targetDays - b.targetDays): a stable sort, so the
\* elements of each targetDays keep their order, the smallest targetDays first
RECURSIVE sortedFrom(_, _)
sortedFrom(s, keys) ==
    IF keys = {} THEN <<>>
    ELSE LET k == CHOOSE x \in keys : \A o \in keys : TLeq(x, o)
             same(b) == b.targetDays = k
         IN  SelectSeq(s, same) \o sortedFrom(s, keys \ {k})

\* the array left in the order of the catalog
catalogOrder(s) == s

sortByTargetDays(s) == sortedFrom(s, {s[i].targetDays : i \in DOMAIN s})

\* calculateHealthBenefits returning the zeros in the order of the catalog: a
\* variant that C30_SamePositions tells from calculateHealthBenefits
calculateHealthBenefitsZerosUnsorted(quitDate, clock, zone) ==
    LET diff == utcDiff(quitDate, clock, zone)
    IN  IF TLeq(diff, TZero)
        THEN [i \in 1..Len(allBenefits) |->
                [name |-> allBenefits[i].name, progress |-> 0,
                 timeframe |-> allBenefits[i].timeframe,
                 category |-> allBenefits[i].category]]
        ELSE LET benefits ==
                     sortByTargetDays(
                         [i \in 1..Len(allBenefits) |->
                            [name |-> allBenefits[i].name,
                             timeframe |-> allBenefits[i].timeframe,
                             targetDays |-> allBenefits[i].targetDays,
                             progress |-> benefitProgress(diff, allBenefits[i].targetDays),
                             category |-> allBenefits[i].category]])
             IN  [i \in 1..Len(benefits) |->
                    [name |-> benefits[i].name, progress |-> benefits[i].progress,
                     timeframe |-> benefits[i].timeframe,
                     category |-> benefits[i].category]]

calculateHealthBenefits(quitDate, clock, zone) ==
    LET diff == utcDiff(quitDate, clock, zone)
    IN  IF TLeq(diff, TZero)
        THEN LET sortedBenefits == sortByTargetDays(allBenefits)
             IN  [i \in 1..Len(sortedBenefits) |->
                    [name |-> sortedBenefits[i].name, progress |-> 0,
                     timeframe |-> sortedBenefits[i].timeframe,
                     category |-> sortedBenefits[i].category]]
        ELSE LET benefits ==
                     sortByTargetDays(
                         [i \in 1..Len(allBenefits) |->
                            [name |-> allBenefits[i].name,
                             timeframe |-> allBenefits[i].timeframe,
                             targetDays |-> allBenefits[i].targetDays,
                             progress |-> benefitProgress(diff, allBenefits[i].targetDays),
                             category |-> allBenefits[i].category]])
             IN  [i \in 1..Len(benefits) |->
                    [name |-> benefits[i].name, progress |-> benefits[i].progress,
                     timeframe |-> benefits[i].timeframe,
                     category |-> benefits[i].category]]

(***************************************************************************)
(* State                                                                   *)
(***************************************************************************)
VARIABLES
    now,                  \* the clock: what new Date() returns
    tz,                   \* the local time zone rule
    hidden,               \* document.hidden
    storage,              \* localStorage: quitDate, nickname, cigarettesPerDay, costPerPack
    view,                 \* what #app shows: "none" before the first render, "setup", "tracker"
    display,              \* the text of the tracker's elements
    timerInterval,        \* the handle of the update interval, 0 for null
    tipInterval,          \* the handle of the tip rotation interval, 0 for null
    intervals,            \* the intervals the browser has scheduled
    lastHealthUpdate,     \* the time of the last slow update, TZero for 0
    cachedHealth,
    cachedHealthBenefits,
    modal,                \* the reset dialog: "none", "open", or "closing" until its timeout is due
    pending,              \* the animation-frame callbacks requested and not yet run
    errorModal,           \* the message of the error dialog the last handler run showed, "" for none
    ev,                   \* what the last handler run did
    ret                   \* the last direct call of a metrics function and its result

vars == <<now, tz, hidden, storage, view, display, timerInterval, tipInterval,
          intervals, lastHealthUpdate, cachedHealth,
          cachedHealthBenefits, modal, pending, errorModal, ev, ret>>

appVars == <<hidden, view, display, timerInterval, tipInterval, intervals,
             lastHealthUpdate, cachedHealth, cachedHealthBenefits,
             modal, pending, errorModal, ev>>

\* a stored quit date: an ISO-8601 string is represented by the instant it
\* denotes (toISOString and the Date constructor are inverse to each other
\* on instants of millisecond resolution); any other string is not a date
NoDate == [has |-> FALSE, valid |-> FALSE, t |-> TZero]
IsoDate(t) == [has |-> TRUE, valid |-> TRUE, t |-> t]
GarbageDate == [has |-> TRUE, valid |-> FALSE, t |-> TZero]

NoDisplay ==
    [days |-> <<>>, hours |-> <<>>, minutes |-> <<>>, seconds |-> <<>>,
     cigarettesAvoided |-> 0, moneySaved |-> <<>>, daysQuit |-> <<>>,
     healthPercentage |-> 0, nextRegenerationName |-> "",
     nextRegenerationTime |-> NoTime, benefits |-> <<>>]

\* what the last handler run did: the update() runs, the slow recomputations
\* and the intervals cancelled in it
NoEvent == [op |-> "none", updates |-> 0, slow |-> 0, cleared |-> 0]

\* the reset dialog: "none", "open", or "closing" with the timeout of
\* confirmReset set
NoModal == [state |-> "none", due |-> FALSE]

NoCall ==
    [fn |-> "none", quitDate |-> TZero, cigarettesPerDay |-> Undefined,
     costPerPack |-> MoneyUndefined, value |-> 0]

AppIdle ==
    /\ hidden = FALSE
    /\ view = "none"
    /\ display = NoDisplay
    /\ timerInterval = 0
    /\ tipInterval = 0
    /\ intervals = {}
    /\ lastHealthUpdate = TZero
    /\ cachedHealth = calculateHealthRegeneration(TZero, TZero, [at |-> TZero, before |-> 0, after |-> 0])
    /\ cachedHealthBenefits = <<>>
    /\ modal = NoModal
    /\ pending = <<>>
    /\ errorModal = ""
    /\ ev = NoEvent

(***************************************************************************)
(* The application.  A handler is an operator from the state before it to  *)
(* the state after it, the state being the record S of the variables; the  *)
(* actions below apply the handlers.                                       *)
(***************************************************************************)
S ==
    [now |-> now, tz |-> tz, hidden |-> hidden, storage |-> storage,
     view |-> view, display |-> display, timerInterval |-> timerInterval,
     tipInterval |-> tipInterval, intervals |-> intervals,
     lastHealthUpdate |-> lastHealthUpdate,
     cachedHealth |-> cachedHealth, cachedHealthBenefits |-> cachedHealthBenefits,
     modal |-> modal, pending |-> pending, errorModal |-> errorModal, ev |-> ev]

\* the state at the start of a handler run named op
Begin(op) ==
    [S EXCEPT !.ev = [op |-> op, updates |-> 0, slow |-> 0, cleared |-> 0],
              !.errorModal = ""]

Commit(st) ==
    \E s \in {st} :
        /\ now' = s.now
        /\ tz' = s.tz
        /\ hidden' = s.hidden
        /\ storage' = s.storage
        /\ view' = s.view
        /\ display' = s.display
        /\ timerInterval' = s.timerInterval
        /\ tipInterval' = s.tipInterval
        /\ intervals' = s.intervals
        /\ lastHealthUpdate' = s.lastHealthUpdate
        /\ cachedHealth' = s.cachedHealth
        /\ cachedHealthBenefits' = s.cachedHealthBenefits
        /\ modal' = s.modal
        /\ pending' = s.pending
        /\ errorModal' = s.errorModal
        /\ ev' = s.ev
        /\ UNCHANGED ret

\* a local constant: F applied to the value of e, which is computed once
With(e, F(_)) == CHOOSE r \in {F(x) : x \in {e}} : TRUE

\* getQuitDate: the stored date, null for none; a stored string that is no
\* date is removed
getQuitDate(st) ==
    IF ~st.storage.quitDate.has THEN [st |-> st, date |-> NoDate]
    ELSE IF ~st.storage.quitDate.valid
         THEN [st |-> [st EXCEPT !.storage.quitDate = NoDate], date |-> NoDate]
         ELSE [st |-> st, date |-> st.storage.quitDate]

showErrorModal(st, message) == [st EXCEPT !.errorModal = message]

\* String.prototype.trim for the blank character
RECURSIVE trimStart(_)
trimStart(s) == IF s # <<>> /\ Head(s) = " " THEN trimStart(Tail(s)) ELSE s

RECURSIVE trimEnd(_)
trimEnd(s) ==
    IF s # <<>> /\ s[Len(s)] = " " THEN trimEnd(SubSeq(s, 1, Len(s) - 1)) ELSE s

trim(s) == trimEnd(trimStart(s))

notAngle(c) == c \notin {"<", ">"}

setNickname(st, nickname) ==
    IF nickname # <<>> /\ trim(nickname) # <<>>
    THEN With(trim(nickname), LAMBDA t :
             [st EXCEPT !.storage.nickname =
                 Str(SelectSeq(SubSeq(t, 1, Min(20, Len(t))), notAngle))])
    ELSE [st EXCEPT !.storage.nickname = Null]

\* new Date() with the year lowered by 50: for the clock dates of this model
\* (November 2025) that is 50 * 365 + 13 days earlier
fiftyYearsBefore(date) == TSub(date, Days(50 * 365 + 13))

\* setQuitDate without its checks: a variant that C26_SetQuitDateGuards tells
\* from setQuitDate
setQuitDateUnchecked(st, date) == [st EXCEPT !.storage.quitDate = IsoDate(date)]

\* setQuitDate of a valid Date
setQuitDate(st, date) ==
    IF TLess(date, fiftyYearsBefore(st.now))
    THEN showErrorModal(st, "Unable to save quit date. Date is too far in the past")
    ELSE IF TLess(st.now, date)
         THEN showErrorModal(st, "Unable to save quit date. Date cannot be in the future")
         ELSE [st EXCEPT !.storage.quitDate = IsoDate(date)]

\* clearInterval(handle); handle = null, for the update interval
\* clearTimer without clearInterval: the variable is reset and the interval
\* stays scheduled; a variant that C24_StopCancels tells from clearTimer
clearTimerKeepInterval(st) == [st EXCEPT !.timerInterval = 0]

clearTimer(st) ==
    IF st.timerInterval # 0
    THEN [st EXCEPT
            !.intervals = {i \in @ : i.id # st.timerInterval},
            !.ev.cleared = @ + Cardinality({i \in st.intervals : i.id = st.timerInterval}),
            !.timerInterval = 0]
    ELSE st

\* the same for the tip rotation interval
clearTip(st) ==
    IF st.tipInterval # 0
    THEN [st EXCEPT !.intervals = {i \in @ : i.id # st.tipInterval},
                    !.tipInterval = 0]
    ELSE st

\* the handle setInterval returns: the least one that no scheduled interval
\* has and no variable holds (handles are identified up to renaming)
freshHandle(st) ==
    CHOOSE h \in 1..(Cardinality(st.intervals) + 3) :
        \A g \in 1..h :
            (g = h) # (g \in {i.id : i \in st.intervals}
                              \cup {st.timerInterval, st.tipInterval})

\* the date and time shown for a Date: its local reading to the minute
toMinuteLocal(date, zone) ==
    With(TAdd(date, Ms(tzOffset(date, zone))), LAMBDA l :
        [d |-> l.d, ms |-> l.ms - (l.ms % MsPerMinute)])

\* the gate with a period of 4000 ms: a variant that C8_SlowGate tells from
\* slowDue
slowDueEarly(last, clock) ==
    TLeq(Ms(healthUpdatePeriod - 1000), TSub(clock, last)) \/ last = TZero

\* whether update() recomputes health and benefits
slowDue(last, clock) ==
    TLeq(Ms(healthUpdatePeriod), TSub(clock, last)) \/ last = TZero

\* requestAnimationFrame(callback): the callbacks requested run in the next
\* frame, in order; of consecutive benefit publications only the last is
\* kept, the ones before it being overwritten in the same frame
requestBenefits(queue, healthBenefits) ==
    IF queue # <<>> /\ queue[Len(queue)].kind = "benefits"
    THEN [queue EXCEPT ![Len(queue)] = [kind |-> "benefits", data |-> healthBenefits]]
    ELSE Append(queue, [kind |-> "benefits", data |-> healthBenefits])

requestRender(queue) == Append(queue, [kind |-> "render", data |-> <<>>])

\* the fast part of update(): the clock and the statistics, written to the
\* elements startTimer looked up if they are of the document shown
showFast(shown, live, timeElapsed, stats) ==
    IF live
    THEN [shown EXCEPT
            !.days = IntToStr(timeElapsed.days),
            !.hours = PadStart2(IntToStr(timeElapsed.hours)),
            !.minutes = PadStart2(IntToStr(timeElapsed.minutes)),
            !.seconds = PadStart2(IntToStr(timeElapsed.seconds)),
            !.cigarettesAvoided = stats.cigarettesAvoided,
            !.moneySaved = <<"$">> \o stats.moneySaved,
            !.daysQuit = IntToStr(stats.daysQuit)]
    ELSE shown

\* the slow part of update()
updateHealth(st, live, health, healthBenefits) ==
    [st EXCEPT
       !.display =
           IF live
           THEN [@ EXCEPT
                   !.healthPercentage = health.percentage,
                   !.nextRegenerationTime =
                       IF /\ st.display.nextRegenerationName # ""
                          /\ health.nextMilestone.has
                          /\ health.timeToNext.has
                          /\ health.timeToNext.v # TZero
                       THEN SomeTime(toMinuteLocal(
                                TAdd(st.now, health.timeToNext.v), st.tz))
                       ELSE @]
           ELSE @,
       !.lastHealthUpdate = st.now,
       !.cachedHealth = health,
       !.cachedHealthBenefits = healthBenefits,
       !.pending = requestBenefits(@, healthBenefits),
       !.ev.slow = @ + 1]

\* update() of the interval closure c: the quit date and the elements
\* startTimer looked up ("live": of the document shown, "detached": of a
\* document replaced since, "none": not found)
update(st, c) ==
    With([st EXCEPT
            !.display = showFast(@, c.els = "live",
                                 calculateTimeElapsed(c.quitDate, st.now),
                                 calculateStats(c.quitDate, Undefined, MoneyUndefined,
                                                st.now, st.tz, st.storage)),
            !.ev.updates = @ + 1],
         LAMBDA st1 :
            IF slowDue(st.lastHealthUpdate, st.now)
            THEN updateHealth(st1, c.els = "live",
                              calculateHealthRegeneration(c.quitDate, st.now, st.tz),
                              calculateHealthBenefits(c.quitDate, st.now, st.tz))
            ELSE st1)

\* setInterval(update, 1000)
setUpdateInterval(st, c, h) ==
    [st EXCEPT
       !.intervals = @ \cup {[id |-> h, kind |-> "update", quitDate |-> c.quitDate,
                              els |-> c.els, due |-> FALSE]},
       !.timerInterval = h]

\* startTimer without the cancellation of the interval scheduled before: a
\* variant that C5_SingleTick tells from scheduleUpdate
scheduleUpdateNoClear(st, c) ==
    With(update(st, c), LAMBDA st2 : setUpdateInterval(st2, c, freshHandle(st2)))

\* startTimer after its quit date check: cancel, look up the elements, run
\* update() once and schedule it every second
scheduleUpdate(st, c) ==
    With(update(clearTimer(st), c), LAMBDA st2 :
        setUpdateInterval(st2, c, freshHandle(st2)))

startTimer(st) ==
    With(getQuitDate(st), LAMBDA g :
        IF ~g.date.has THEN g.st
        ELSE scheduleUpdate(g.st,
                 [quitDate |-> g.date.t,
                  els |-> IF g.st.view = "tracker" THEN "live" ELSE "none"]))

setTipInterval(st, h) ==
    [st EXCEPT
       !.intervals = @ \cup {[id |-> h, kind |-> "tip", quitDate |-> TZero,
                              els |-> "live", due |-> FALSE]},
       !.tipInterval = h]

startTipRotation(st) ==
    IF st.view # "tracker" THEN st
    ELSE With(clearTip(st), LAMBDA st1 : setTipInterval(st1, freshHandle(st1)))

\* assigning #app's innerHTML: elements looked up before are no longer shown
detach(ivs) == {[i EXCEPT !.els = IF @ = "live" THEN "detached" ELSE @] : i \in ivs}

\* the tracker as renderTracker writes it
trackerHtml(timeElapsed, stats, health, healthBenefits) ==
    [days |-> IntToStr(timeElapsed.days),
     hours |-> PadStart2(IntToStr(timeElapsed.hours)),
     minutes |-> PadStart2(IntToStr(timeElapsed.minutes)),
     seconds |-> PadStart2(IntToStr(timeElapsed.seconds)),
     cigarettesAvoided |-> stats.cigarettesAvoided,
     moneySaved |-> <<"$">> \o stats.moneySaved,
     daysQuit |-> IntToStr(stats.daysQuit),
     healthPercentage |-> health.percentage,
     nextRegenerationName |->
         IF health.nextMilestone.has THEN health.nextMilestone.m.name ELSE "",
     nextRegenerationTime |-> NoTime,
     benefits |->
         [i \in 1..Len(healthBenefits) |->
            [name |-> healthBenefits[i].name,
             progress |-> healthBenefits[i].progress]]]

renderTracker(st) ==
    With(getQuitDate(clearTip(clearTimer(st))), LAMBDA g :
        IF ~g.date.has
        THEN [g.st EXCEPT !.view = "setup", !.display = NoDisplay,
                          !.intervals = detach(@)]
        ELSE With([g.st EXCEPT
                     !.view = "tracker",
                     !.display = trackerHtml(
                         calculateTimeElapsed(g.date.t, st.now),
                         calculateStats(g.date.t, Undefined, MoneyUndefined,
                                        st.now, st.tz, g.st.storage),
                         calculateHealthRegeneration(g.date.t, st.now, st.tz),
                         calculateHealthBenefits(g.date.t, st.now, st.tz)),
                     !.intervals = detach(@)],
                  LAMBDA st1 :
                     With(startTimer(st1), LAMBDA st2 : startTipRotation(st2))))

\* String(n) for an amount of money n >= 0
moneyToStr(m) ==
    NatToStr(m.dol)
    \o (IF m.c = 0 THEN <<>>
        ELSE IF m.c % 10 = 0 THEN <<".", DigitChars[(m.c \div 10) + 1]>>
        ELSE <<".">> \o PadStart2(NatToStr(m.c)))

\* parseInt(value) || DEFAULT_CIGARETTES_PER_DAY
cigarettesOrDefault(p) ==
    IF p.t = "nan" \/ p.v = 0 THEN DEFAULT_CIGARETTES_PER_DAY ELSE p.v

\* parseFloat(value) || DEFAULT_COST_PER_PACK
costOrDefault(p) ==
    IF p.t = "nan" \/ p.v = Money(0, 0) THEN Money(DEFAULT_COST_PER_PACK, 0) ELSE p.v

\* startTracking once the quit date is stored
savePreferences(st, cigarettesPerDay, costPerPack) ==
    IF cigarettesPerDay < 1 \/ cigarettesPerDay > 200
    THEN showErrorModal(st, "Please enter a valid number of cigarettes per day (1-200).")
    ELSE IF costPerPack.dol < 0 \/ ~MLeq(costPerPack, Money(1000, 0))
    THEN showErrorModal(st, "Please enter a valid cost per pack (0-1000).")
    ELSE With(clearTimer(
                  [st EXCEPT
                     !.storage.cigarettesPerDay = Str(IntToStr(cigarettesPerDay)),
                     !.storage.costPerPack = Str(moneyToStr(costPerPack))]),
              LAMBDA st1 : renderTracker(st1))

\* startTracking with the form's values: the nickname, the date field (empty,
\* not a date, or a date), the cigarettes and the cost fields
startTracking(st, form) ==
    With(setNickname(st, form.nickname), LAMBDA st1 :
        IF form.date.k = "empty"
        THEN showErrorModal(st1, "Please select a quit date")
        ELSE IF form.date.k = "invalid"
        THEN showErrorModal(st1, "Invalid date selected. Please choose a valid date.")
        ELSE IF TLess(st.now, form.date.t)
        THEN showErrorModal(st1, "Quit date cannot be in the future. Please select a past or current date.")
        ELSE IF TLess(form.date.t, fiftyYearsBefore(st.now))
        THEN showErrorModal(st1, "Quit date cannot be more than 50 years ago. Please select a more recent date.")
        ELSE With(setQuitDate(st1, form.date.t), LAMBDA st2 :
                 savePreferences(st2, cigarettesOrDefault(parseInt(form.cigarettes)),
                                 costOrDefault(parseFloat(form.cost)))))

\* the reset removing the nickname with the other keys and leaving the tip
\* rotation scheduled: a variant that C25_ResetEffect tells from
\* resetAfterClose
resetEverything(st) ==
    With(clearTimer(st), LAMBDA st1 :
        [st1 EXCEPT
           !.modal = NoModal,
           !.storage.quitDate = NoDate,
           !.storage.nickname = Null,
           !.storage.cigarettesPerDay = Null,
           !.storage.costPerPack = Null,
           !.pending = requestRender(@)])

\* the timeout confirmReset sets: the reset itself
resetAfterClose(st) ==
    With(clearTip(clearTimer(st)), LAMBDA st1 :
        [st1 EXCEPT
           !.modal = NoModal,
           !.storage.quitDate = NoDate,
           !.storage.cigarettesPerDay = Null,
           !.storage.costPerPack = Null,
           !.pending = requestRender(@)])

\* the benefit publication of update(): by index, into the document shown
publishBenefits(st, data) ==
    [st EXCEPT !.display.benefits =
        [i \in DOMAIN @ |->
            IF i \in DOMAIN data THEN [@[i] EXCEPT !.progress = data[i].progress]
            ELSE @[i]]]

\* the animation-frame callbacks of queue, run in order
RECURSIVE runFrame(_, _)
runFrame(st, queue) ==
    IF queue = <<>> THEN st
    ELSE With(IF Head(queue).kind = "render" THEN renderTracker(st)
              ELSE publishBenefits(st, Head(queue).data),
              LAMBDA st1 : runFrame(st1, Tail(queue)))

\* the visibilitychange handler
onVisibilityChange(st) ==
    IF st.hidden THEN clearTimer(st)
    ELSE With(getQuitDate(st), LAMBDA g :
             IF g.date.has THEN startTimer(g.st) ELSE g.st)

(***************************************************************************)
(* Actions                                                                 *)
(***************************************************************************)
MaxSeconds == 5

StartTime == T(20400, 36000000)

TimeSteps == {1000, 5000}

AppZones == {[at |-> T(20400, 36003000), before |-> 3600000, after |-> 0]}

InitialStorages ==
    {[quitDate |-> NoDate, nickname |-> Null, cigarettesPerDay |-> Null,
      costPerPack |-> Null],
     [quitDate |-> IsoDate(T(20379, 36000000)), nickname |-> Str(<<"A">>),
      cigarettesPerDay |-> Str(<<"2", "0">>), costPerPack |-> Str(<<"1", "0">>)],
     [quitDate |-> GarbageDate, nickname |-> Null, cigarettesPerDay |-> Null,
      costPerPack |-> Null]}

FormNicknames == {<<>>, <<" ", "<", "A", ">">>}

FormDates ==
    {[k |-> "empty", t |-> TZero], [k |-> "invalid", t |-> TZero],
     [k |-> "date", t |-> T(20401, 0)], [k |-> "date", t |-> T(2000, 0)],
     [k |-> "date", t |-> T(20379, 36000000)]}

\* the forms submitted: every nickname with every date, and a valid date with
\* cigarettes and costs in and out of range
Forms ==
    {[nickname |-> n, date |-> d, cigarettes |-> <<"2", "0">>,
      cost |-> <<"7", ".", "5">>] : n \in FormNicknames, d \in FormDates}
    \cup
    {[nickname |-> <<>>, date |-> [k |-> "date", t |-> T(20379, 36000000)],
      cigarettes |-> f[1], cost |-> f[2]] :
        f \in {<<<<"5", "0", "0">>, <<"1", "0">>>>, <<<<"0">>, <<"-", "1">>>>,
               <<<<>>, <<"2", "0", "0", "0">>>>, <<<<"-", "3">>, <<"1", "0">>>>}}

Init ==
    /\ now = StartTime
    /\ tz \in AppZones
    /\ storage \in InitialStorages
    /\ hidden \in BOOLEAN
    /\ view = "none"
    /\ display = NoDisplay
    /\ timerInterval = 0
    /\ tipInterval = 0
    /\ intervals = {}
    /\ lastHealthUpdate = TZero
    /\ cachedHealth = calculateHealthRegeneration(TZero, TZero, [at |-> TZero, before |-> 0, after |-> 0])
    /\ cachedHealthBenefits = <<>>
    /\ modal = NoModal
    /\ pending = <<>>
    /\ errorModal = ""
    /\ ev = NoEvent
    /\ ret = NoCall

\* the module's last statement: renderTracker()
InitialRender ==
    /\ view = "none"
    /\ Commit(renderTracker(Begin("render")))

\* time passes: an update interval is due once its period has passed, the
\* timeout of confirmReset once its delay has
Advance(dt) ==
    /\ view # "none"
    /\ TLeq(TAdd(now, Ms(dt)), TAdd(StartTime, Ms(MaxSeconds * 1000)))
    /\ Commit([Begin("time") EXCEPT
                 !.now = TAdd(now, Ms(dt)),
                 !.intervals = {[i EXCEPT !.due = @ \/ (i.kind = "update" /\ dt >= timerPeriod)]
                                 : i \in @},
                 !.modal.due = @ \/ (modal.state = "closing" /\ dt >= resetDelay)])

\* the browser runs a due update interval
Tick(i) ==
    /\ i.kind = "update"
    /\ i.due
    /\ Commit(update([Begin("tick") EXCEPT
                        !.intervals = (@ \ {i}) \cup {[i EXCEPT !.due = FALSE]}],
                     i))

\* the browser runs the animation-frame callbacks; it runs none while the
\* document is hidden
AnimationFrame ==
    /\ ~hidden
    /\ pending # <<>>
    /\ Commit(runFrame([Begin("frame") EXCEPT !.pending = <<>>], pending))

Hide ==
    /\ view # "none"
    /\ ~hidden
    /\ Commit(onVisibilityChange([Begin("hidden") EXCEPT !.hidden = TRUE]))

Show ==
    /\ view # "none"
    /\ hidden
    /\ Commit(onVisibilityChange([Begin("visible") EXCEPT !.hidden = FALSE]))

\* a click on Start Tracking
StartTracking(form) ==
    /\ view = "setup"
    /\ ~hidden
    /\ Commit(startTracking(Begin("startTracking"), form))

\* a click on the reset button: showResetConfirmation
ResetClick ==
    /\ view = "tracker"
    /\ ~hidden
    /\ modal.state = "none"
    /\ Commit([Begin("resetTracker") EXCEPT !.modal = [state |-> "open", due |-> FALSE]])

\* Cancel, Escape or a click on the overlay: closeResetModal
CancelReset ==
    /\ modal.state = "open"
    /\ ~hidden
    /\ Commit([Begin("closeResetModal") EXCEPT !.modal = NoModal])

\* a click on Reset: confirmReset closes the dialog and sets the timeout
ConfirmReset ==
    /\ modal.state = "open"
    /\ ~hidden
    /\ Commit([Begin("confirmReset") EXCEPT
                 !.modal = [state |-> "closing", due |-> FALSE]])

\* the timeout of confirmReset
ResetTimeout ==
    /\ modal.state = "closing"
    /\ modal.due
    /\ Commit(resetAfterClose(Begin("reset")))

Next ==
    \/ InitialRender
    \/ \E dt \in TimeSteps : Advance(dt)
    \/ \E i \in intervals : Tick(i)
    \/ AnimationFrame
    \/ Hide
    \/ Show
    \/ \E form \in Forms : StartTracking(form)
    \/ ResetClick
    \/ CancelReset
    \/ ConfirmReset
    \/ ResetTimeout

Spec == Init /\ [][Next]_vars

(***************************************************************************)
(* The metrics functions under drawn inputs: the clock, the zone and the   *)
(* stored preferences are drawn initially, and one call is made with drawn *)
(* arguments.                                                              *)
(***************************************************************************)
CalcNow == {T(20400, 36000100), T(20400, 36000900)}

\* how long before the clock's instant the quit date lies
CalcElapsed ==
    {Ms(-3600000), TZero, Ms(200), Ms(1209000), Ms(1210000), Ms(1800000),
     T(0, 43200000), T(0, 86399200), Days(1), T(7, 10800000), Days(14),
     Days(21), Days(22), T(29, 43200000), Days(365), T(5474, 86399000),
     Days(5475), T(20000, 1000), Days(36500), Days(36600),
     Ms(-1800000), T(0, 1209600), T(36500, 1800000)}

CalcZones ==
    {[at |-> TZero, before |-> 0, after |-> 0],
     [at |-> TZero, before |-> 19800000, after |-> 19800000],
     [at |-> T(20397, 3600000), before |-> 0, after |-> 3600000],
     [at |-> T(20397, 3600000), before |-> 3600000, after |-> 0],
     [at |-> T(20400, 35400000), before |-> 0, after |-> 3600000],
     [at |-> T(20400, 35400000), before |-> 3600000, after |-> 0],
     [at |-> T(20400, 37000000), before |-> 3600000, after |-> 0]}

CalcStoredCigarettes ==
    {Null, Str(<<>>), Str(<<"a", "b", "c">>), Str(<<"0">>), Str(<<"-", "5">>),
     Str(<<"1", "5">>), Str(<<"1", "2", "a", "b">>),
     Str(<<"2", "4", "0", "0", "0">>)}

CalcStoredCost ==
    {Null, Str(<<"a", "b", "c">>), Str(<<"0">>), Str(<<"-", "2", ".", "5", "0">>),
     Str(<<"7", ".", "2", "5">>), Str(<<"2", "5">>)}

CalcArgCigarettes == {Undefined, Num(200), Num(0), Num(-4)}

CalcArgCost == {MoneyUndefined, MoneyNum(12, 50), MoneyNum(-3, 0)}

CalcInit ==
    /\ now \in CalcNow
    /\ tz \in CalcZones
    /\ storage \in [quitDate : {NoDate}, nickname : {Null},
                    cigarettesPerDay : CalcStoredCigarettes,
                    costPerPack : CalcStoredCost]
    /\ AppIdle
    /\ ret = NoCall

CallTimeElapsed(e) ==
    /\ ret = NoCall
    /\ ret' = [fn |-> "calculateTimeElapsed", quitDate |-> TSub(now, e),
               cigarettesPerDay |-> Undefined, costPerPack |-> MoneyUndefined,
               value |-> calculateTimeElapsed(TSub(now, e), now)]
    /\ UNCHANGED <<now, tz, storage, appVars>>

CallStats(e, c, p) ==
    /\ ret = NoCall
    /\ ret' = [fn |-> "calculateStats", quitDate |-> TSub(now, e),
               cigarettesPerDay |-> c, costPerPack |-> p,
               value |-> calculateStats(TSub(now, e), c, p, now, tz, storage)]
    /\ UNCHANGED <<now, tz, storage, appVars>>

CallHealthRegeneration(e) ==
    /\ ret = NoCall
    /\ ret' = [fn |-> "calculateHealthRegeneration", quitDate |-> TSub(now, e),
               cigarettesPerDay |-> Undefined, costPerPack |-> MoneyUndefined,
               value |-> calculateHealthRegeneration(TSub(now, e), now, tz)]
    /\ UNCHANGED <<now, tz, storage, appVars>>

CallHealthBenefits(e) ==
    /\ ret = NoCall
    /\ ret' = [fn |-> "calculateHealthBenefits", quitDate |-> TSub(now, e),
               cigarettesPerDay |-> Undefined, costPerPack |-> MoneyUndefined,
               value |-> calculateHealthBenefits(TSub(now, e), now, tz)]
    /\ UNCHANGED <<now, tz, storage, appVars>>

CalcNext ==
    \/ \E e \in CalcElapsed : CallTimeElapsed(e)
    \/ \E e \in CalcElapsed, c \in CalcArgCigarettes, p \in CalcArgCost :
           CallStats(e, c, p)
    \/ \E e \in CalcElapsed : CallHealthRegeneration(e)
    \/ \E e \in CalcElapsed : CallHealthBenefits(e)

CalcSpec == CalcInit /\ [][CalcNext]_vars

(***************************************************************************)
(* Claims about the metrics functions (checked under CalcSpec)             *)
(***************************************************************************)
\* the true elapsed time of the call recorded in ret
TrueElapsed == TSub(now, ret.quitDate)

\* q = Math.round(n / den) stated by its bounds: q - 1/2 <= n / den < q + 1/2
IsRounded(q, n, den) ==
    /\ TLeq(TMul(den, 2 * q - 1), TMul(n, 2))
    /\ TLess(TMul(n, 2), TMul(den, 2 * q + 1))

\* the amount a toFixed(2) string denotes; it has two decimals
HasTwoDecimals(s) == Len(s) >= 4 /\ s[Len(s) - 2] = "."

\* C1: for every quitInstant < now and every profile, cigarettesAvoided =
\* floor(days * cigarettesPerDay), packsAvoided = floor(cigarettesAvoided / 20),
\* moneySaved = min(packsAvoided * costPerPack, cap) with 2 decimals and
\* daysQuit = floor(days), days being (now - quitInstant) / 86,400,000; a quit
\* 7 days 3 hours ago with 20 a day at cost 10 gives 142, 7, "70.00", 7.
\* Stated for the profiles every reading agrees on (nothing stored, the
\* arguments absent or positive) and at most maxDays elapsed days.
C1_StatsFormula ==
    (/\ ret.fn = "calculateStats"
     /\ TLess(ret.quitDate, now)
     /\ TLeq(TrueElapsed, Days(maxDays))
     /\ ~storage.cigarettesPerDay.has /\ ~storage.costPerPack.has
     /\ ret.cigarettesPerDay.t = "undefined" \/ ret.cigarettesPerDay.v > 0
     /\ ret.costPerPack.t = "undefined" \/ ret.costPerPack.v.dol > 0)
    => LET cpd == IF ret.cigarettesPerDay.t = "undefined" THEN 20
                  ELSE ret.cigarettesPerDay.v
           cost == IF ret.costPerPack.t = "undefined" THEN Money(10, 0)
                   ELSE ret.costPerPack.v
           cigs == TMul(TrueElapsed, cpd).d
           packs == cigs \div 20
       IN  /\ ret.value.cigarettesAvoided = cigs
           /\ ret.value.packsAvoided = packs
           /\ HasTwoDecimals(ret.value.moneySaved)
           /\ parseFloat(ret.value.moneySaved).v = MMin(MMul(cost, packs), maxMoney)
           /\ ret.value.daysQuit = TrueElapsed.d
           /\ (TrueElapsed = T(7, 10800000) /\ cpd = 20 /\ cost = Money(10, 0))
                => ret.value = [cigarettesAvoided |-> 142, packsAvoided |-> 7,
                                moneySaved |-> <<"7", "0", ".", "0", "0">>,
                                daysQuit |-> 7]

\* the index of the last milestone whose days are <= days, 0 if there is none
LastReached(days) ==
    IF \E i \in DOMAIN milestones : TLeq(milestones[i].days, days)
    THEN CHOOSE i \in DOMAIN milestones :
            /\ TLeq(milestones[i].days, days)
            /\ \A j \in DOMAIN milestones : TLeq(milestones[j].days, days) => j <= i
    ELSE 0

\* C2: for every days > 0 below the final milestone, days being
\* (now - quitInstant) / 86,400,000, the percentage is the rounded linear
\* interpolation between the last milestone whose targetDays <= days and the
\* following one, and 0 before the first milestone; a quit exactly 21 days
\* ago gives 32.
C2_Interpolation ==
    (/\ ret.fn = "calculateHealthRegeneration"
     /\ TLess(TZero, TrueElapsed)
     /\ TLess(TrueElapsed, milestones[Len(milestones)].days))
    => LET k == LastReached(TrueElapsed)
       IN  /\ k = 0 => ret.value.percentage = 0
           /\ k > 0 =>
                LET lo == milestones[k]
                    hi == milestones[k + 1]
                IN  /\ ret.value.percentage \in lo.progress..hi.progress
                    /\ IsRounded(ret.value.percentage - lo.progress,
                                 TMul(TSub(TrueElapsed, lo.days), hi.progress - lo.progress),
                                 TSub(hi.days, lo.days))
           /\ TrueElapsed = Days(21) => ret.value.percentage = 32

\* the benefit of the catalog with a name
benefitNamed(name) ==
    allBenefits[CHOOSE i \in DOMAIN allBenefits : allBenefits[i].name = name]

\* C3: whenever now > quitInstant, each benefit's progressPercent is
\* min(100, round(days / targetDays * 100)), and a benefit with targetDays 0
\* has 100 for any positive elapsed time, however small.
C3_BenefitProgress ==
    (ret.fn = "calculateHealthBenefits" /\ TLess(ret.quitDate, now))
    => \A i \in DOMAIN ret.value :
          LET target == benefitNamed(ret.value[i].name).targetDays
              p == ret.value[i].progress
          IN  IF target = TZero THEN p = 100
              ELSE \/ p = 100 /\ TLeq(TMul(target, 199), TMul(TrueElapsed, 200))
                   \/ p < 100 /\ IsRounded(p, TMul(TrueElapsed, 100), target)

\* C4: the elapsed duration the three functions use is now - quitInstant, so
\* for every quitInstant <= now, daysQuit = min(ElapsedMetrics.days, 36500).
C4_DaysQuitIsElapsedDays ==
    (ret.fn = "calculateStats" /\ TLeq(ret.quitDate, now))
    => /\ utcDiff(ret.quitDate, now, tz) = TrueElapsed
       /\ ret.value.daysQuit = Min(calculateTimeElapsed(ret.quitDate, now).days, 36500)

\* a stored or supplied value the claim calls usable: numeric and positive
UsableCigarettes(n) == n.t = "num" /\ n.v > 0
UsableCost(n) == n.t = "num" /\ MLeq(Money(0, 1), n.v)

\* C9: calculateStats uses the default (20 a day, cost 10) whenever the
\* supplied or stored cigarettesPerDay or costPerPack is absent, non-numeric
\* or non-positive: its result is the one it gives with every such value
\* absent.
C9_DefaultsForInvalid ==
    ret.fn = "calculateStats"
    => LET sc == storage.cigarettesPerDay
           sp == storage.costPerPack
           cleaned ==
               [storage EXCEPT
                  !.cigarettesPerDay =
                      IF sc.has /\ UsableCigarettes(parseInt(sc.s)) THEN sc ELSE Null,
                  !.costPerPack =
                      IF sp.has /\ UsableCost(parseFloat(sp.s)) THEN sp ELSE Null]
           c == IF UsableCigarettes(ret.cigarettesPerDay) THEN ret.cigarettesPerDay
                ELSE Undefined
           p == IF UsableCost(ret.costPerPack) THEN ret.costPerPack
                ELSE MoneyUndefined
       IN  ret.value = calculateStats(ret.quitDate, c, p, now, tz, cleaned)

\* C10: for every quit instant, current instant and stored or supplied
\* preference value, the stats have cigarettesAvoided >= 0, packsAvoided >= 0,
\* moneySaved >= 0 and daysQuit >= 0.
C10_StatsNonNegative ==
    ret.fn = "calculateStats"
    => /\ ret.value.cigarettesAvoided >= 0
       /\ ret.value.packsAvoided >= 0
       /\ MLeq(Money(0, 0), parseFloat(ret.value.moneySaved).v)
       /\ ret.value.daysQuit >= 0

(***************************************************************************)
(* The scheduler                                                           *)
(***************************************************************************)
updateIntervals == {i \in intervals : i.kind = "update"}

\* the clock as update() writes it for the closure c at the present instant
clockShown(c) ==
    [days |-> IntToStr(calculateTimeElapsed(c.quitDate, now).days),
     hours |-> PadStart2(IntToStr(calculateTimeElapsed(c.quitDate, now).hours)),
     minutes |-> PadStart2(IntToStr(calculateTimeElapsed(c.quitDate, now).minutes)),
     seconds |-> PadStart2(IntToStr(calculateTimeElapsed(c.quitDate, now).seconds))]

clockDisplayed ==
    [days |-> display.days, hours |-> display.hours, minutes |-> display.minutes,
     seconds |-> display.seconds]

\* C5: in every reachable state at most one update interval is scheduled,
\* and it is the one timerInterval holds: startTimer cancels the interval
\* scheduled before, so update() never runs from two intervals.
C5_SingleTick ==
    /\ Cardinality(updateIntervals) <= 1
    /\ \A i \in updateIntervals : i.id = timerInterval
    /\ timerInterval # 0 => \E i \in updateIntervals : i.id = timerInterval

\* startTimer has run while an update interval was scheduled, has cancelled
\* it and has scheduled its own
C5_Witness ==
    /\ ev.op = "visible"
    /\ ev.cleared = 1
    /\ ev.updates = 1
    /\ Cardinality(updateIntervals) = 1

\* C6: whenever the document is hidden no update interval is scheduled, over
\* all sequences of the initial render, startTracking, reset and visibility
\* changes.
C6_NoTickWhileHidden == hidden => updateIntervals = {}

\* C7: when the document has just become visible with a quit date stored,
\* update() has run exactly once in the handler and the days, hours, minutes
\* and seconds displayed are those of the time elapsed at that instant.
C7_ResumeShowsElapsed ==
    (ev.op = "visible" /\ storage.quitDate.has) =>
        /\ ev.updates = 1
        /\ clockDisplayed = clockShown([quitDate |-> storage.quitDate.t])

\* C8: a run of update() recomputes health and benefits if and only if
\* lastHealthUpdate is 0 or at least 5000 ms have passed since it; a
\* recomputation sets lastHealthUpdate to the present instant, so two
\* consecutive ones are at least 5000 ms apart, and nothing else changes it;
\* the clock and the statistics are written by every tick.
C8_SlowGate ==
    [][/\ ev'.updates = 1 =>
            (ev'.slow = 1 <=>
                (lastHealthUpdate = TZero
                 \/ TLeq(Ms(5000), TSub(now', lastHealthUpdate))))
       /\ ev'.slow > 0 =>
            /\ lastHealthUpdate' = now'
            /\ lastHealthUpdate # TZero => TLeq(Ms(5000), TSub(now', lastHealthUpdate))
       /\ ev'.slow = 0 => lastHealthUpdate' = lastHealthUpdate
       /\ ev'.op = "tick" =>
            /\ ev'.updates = 1
            /\ \A i \in updateIntervals' : i.els = "live" =>
                  /\ display'.days = IntToStr(calculateTimeElapsed(i.quitDate, now').days)
                  /\ display'.seconds =
                         PadStart2(IntToStr(calculateTimeElapsed(i.quitDate, now').seconds))
                  /\ display'.cigarettesAvoided =
                         calculateStats(i.quitDate, Undefined, MoneyUndefined,
                                        now', tz', storage').cigarettesAvoided]_vars

\* a tick has recomputed health and benefits, 5000 ms or more after the
\* recomputation before it
C8_Witness ==
    /\ ev.op = "tick"
    /\ ev.slow = 1
    /\ lastHealthUpdate = now
    /\ TLeq(Ms(5000), TSub(now, StartTime))

(***************************************************************************)
(* Clamps, degenerate results and boundaries                               *)
(***************************************************************************)
\* a call of calculateStats with nothing stored and each argument absent or
\* positive
PlainProfile ==
    /\ ~storage.cigarettesPerDay.has /\ ~storage.costPerPack.has
    /\ ret.cigarettesPerDay.t = "undefined" \/ ret.cigarettesPerDay.v > 0
    /\ ret.costPerPack.t = "undefined" \/ ret.costPerPack.v.dol > 0

\* C11: for every quit instant more than 36500 days before now, daysQuit is
\* 36500 and cigarettesAvoided is floor(36500 * cigarettesPerDay); for every
\* input moneySaved is at most 999999999.99.
C11_ClampAndCap ==
    ret.fn = "calculateStats"
    => /\ MLeq(parseFloat(ret.value.moneySaved).v, Money(999999999, 99))
       /\ (TLess(Days(36500), TrueElapsed) /\ PlainProfile)
            => /\ ret.value.daysQuit = 36500
               /\ ret.value.cigarettesAvoided =
                      36500 * (IF ret.cigarettesPerDay.t = "undefined" THEN 20
                               ELSE ret.cigarettesPerDay.v)

\* C12: for every quitInstant <= now, calculateTimeElapsed returns totalMs
\* equal to now - quitInstant, with hours in 0..23, minutes in 0..59, seconds
\* in 0..59 and days*86,400,000 + hours*3,600,000 + minutes*60,000 +
\* seconds*1,000 <= totalMs < that sum + 1,000.
C12_ElapsedDecomposition ==
    (ret.fn = "calculateTimeElapsed" /\ TLeq(ret.quitDate, now))
    => /\ ret.value.days >= 0
       /\ ret.value.hours \in 0..23
       /\ ret.value.minutes \in 0..59
       /\ ret.value.seconds \in 0..59
       /\ ret.value.totalMs = TrueElapsed
       /\ LET sum == TAdd(Days(ret.value.days),
                          Ms(ret.value.hours * 3600000 + ret.value.minutes * 60000
                             + ret.value.seconds * 1000))
          IN  /\ TLeq(sum, ret.value.totalMs)
              /\ TLess(ret.value.totalMs, TAdd(sum, Ms(1000)))

\* calculateTimeElapsed has decomposed 5474 days 23:59:59
C12_Witness ==
    /\ ret.fn = "calculateTimeElapsed"
    /\ TrueElapsed = T(5474, 86399000)
    /\ ret.value.days = 5474
    /\ ret.value.hours = 23
    /\ ret.value.minutes = 59
    /\ ret.value.seconds = 59

\* C13: for every now <= quitInstant, calculateTimeElapsed returns days,
\* hours, minutes, seconds and totalMs all 0; it returns a result, no error.
C13_ElapsedZeroForFuture ==
    (ret.fn = "calculateTimeElapsed" /\ TLeq(now, ret.quitDate))
    => ret.value = [days |-> 0, hours |-> 0, minutes |-> 0, seconds |-> 0,
                    totalMs |-> TZero]

\* calculateTimeElapsed has been called with a quit date after now
C13_Witness ==
    /\ ret.fn = "calculateTimeElapsed"
    /\ TLess(now, ret.quitDate)
    /\ ret.value.totalMs = TZero
    /\ ret.value.seconds = 0

\* C14: for every now <= quitInstant, calculateStats returns cigarettesAvoided
\* 0, packsAvoided 0, moneySaved "0.00" and daysQuit 0, whatever the profile.
C14_StatsZeroForFuture ==
    (ret.fn = "calculateStats" /\ TLeq(now, ret.quitDate))
    => ret.value = [cigarettesAvoided |-> 0, packsAvoided |-> 0,
                    moneySaved |-> <<"0", ".", "0", "0">>, daysQuit |-> 0]

\* C15: for every now <= quitInstant, calculateHealthRegeneration returns
\* percentage 0, days 0, the first milestone (0.014 days, 'Heart rate
\* normalizes') as nextMilestone, and 0.014 days in milliseconds as
\* timeToNext.
C15_RegenerationZeroForFuture ==
    (ret.fn = "calculateHealthRegeneration" /\ TLeq(now, ret.quitDate))
    => /\ ret.value.percentage = 0
       /\ ret.value.days = 0
       /\ ret.value.nextMilestone.has
       /\ ret.value.nextMilestone.m.name = "Heart rate normalizes"
       /\ ret.value.nextMilestone.m.days = T(0, 1209600)
       /\ ret.value.timeToNext = [has |-> TRUE, v |-> T(0, 1209600)]

\* C16: for every now <= quitInstant, equality included, calculateHealthBenefits
\* returns every benefit of the catalog with progress 0, the benefit whose
\* targetDays is 0 included.
C16_BenefitsZeroForFuture ==
    (ret.fn = "calculateHealthBenefits" /\ TLeq(now, ret.quitDate))
    => /\ Len(ret.value) = Len(allBenefits)
       /\ \A i \in DOMAIN allBenefits :
             \E j \in DOMAIN ret.value : ret.value[j].name = allBenefits[i].name
       /\ \A j \in DOMAIN ret.value : ret.value[j].progress = 0

\* C17: when the elapsed time equals a targetDays exactly, the health
\* percentage is that milestone's progress (25 at exactly 14 days) and every
\* benefit with that targetDays has progress 100 ('Improved Libido' at exactly
\* 14 days).
C17_ExactAtTarget ==
    /\ ret.fn = "calculateHealthRegeneration"
         => /\ \A k \in DOMAIN milestones :
                  TrueElapsed = milestones[k].days
                  => ret.value.percentage = milestones[k].progress
            /\ TrueElapsed = Days(14) => ret.value.percentage = 25
    /\ ret.fn = "calculateHealthBenefits"
         => \A j \in DOMAIN ret.value :
               /\ (/\ TLess(TZero, TrueElapsed)
                   /\ TrueElapsed = benefitNamed(ret.value[j].name).targetDays)
                    => ret.value[j].progress = 100
               /\ (TrueElapsed = Days(14) /\ ret.value[j].name = "Improved Libido")
                    => ret.value[j].progress = 100

\* C18: nextMilestone and timeToNext are none exactly when the elapsed days
\* are 5475 or more, and then the percentage is exactly 100; for
\* 0 < days < 5475 nextMilestone is the first milestone with targetDays > days
\* and timeToNext is (targetDays - days) in milliseconds, strictly positive.
C18_NextMilestone ==
    (ret.fn = "calculateHealthRegeneration" /\ TLess(TZero, TrueElapsed))
    => IF TLeq(Days(5475), TrueElapsed)
       THEN /\ ~ret.value.nextMilestone.has
            /\ ~ret.value.timeToNext.has
            /\ ret.value.percentage = 100
       ELSE /\ ret.value.nextMilestone.has
            /\ ret.value.nextMilestone.m = milestones[LastReached(TrueElapsed) + 1]
            /\ ret.value.timeToNext.has
            /\ ret.value.timeToNext.v =
                   TSub(milestones[LastReached(TrueElapsed) + 1].days, TrueElapsed)
            /\ TLess(TZero, ret.value.timeToNext.v)

\* how much later the clock is read again for the same quit date
CalcLater == {Ms(1000), Ms(1200000), Days(1)}

\* C19: for a fixed quit instant the health percentage does not decrease as
\* now increases, and it is always an integer in 0..100.
C19_PercentageMonotone ==
    ret.fn = "calculateHealthRegeneration"
    => /\ ret.value.percentage \in 0..100
       /\ \A later \in CalcLater :
             ret.value.percentage
               <= calculateHealthRegeneration(ret.quitDate, TAdd(now, later), tz).percentage

\* C20: for a fixed quit instant each benefit's progress is an integer in
\* 0..100, does not decrease as now increases, and stays 100 once it has
\* reached 100.
C20_BenefitMonotone ==
    ret.fn = "calculateHealthBenefits"
    => /\ \A j \in DOMAIN ret.value : ret.value[j].progress \in 0..100
       /\ \A later \in CalcLater :
             LET after == calculateHealthBenefits(ret.quitDate, TAdd(now, later), tz)
             IN  \A j \in DOMAIN ret.value :
                    \A k \in DOMAIN after :
                       after[k].name = ret.value[j].name
                       => /\ ret.value[j].progress <= after[k].progress
                          /\ ret.value[j].progress = 100 => after[k].progress = 100

(***************************************************************************)
(* Order of the benefits, purity and malformed dates                       *)
(***************************************************************************)
\* C21: calculateHealthBenefits always returns one record per benefit of the
\* catalog, ordered by ascending targetDays, in the degenerate branch and in
\* the normal one, although the catalog itself is not in that order.
C21_SortedByTargetDays ==
    ret.fn = "calculateHealthBenefits"
    => /\ Len(ret.value) = Len(allBenefits)
       /\ \A i \in DOMAIN allBenefits :
             \E j \in DOMAIN ret.value : ret.value[j].name = allBenefits[i].name
       /\ \A j \in 1..(Len(ret.value) - 1) :
             TLeq(benefitNamed(ret.value[j].name).targetDays,
                  benefitNamed(ret.value[j + 1].name).targetDays)

C21_Witness ==
    /\ ret.fn = "calculateHealthBenefits"
    /\ TLess(TZero, utcDiff(ret.quitDate, now, tz))
    /\ \E i, j \in DOMAIN allBenefits :
          i < j /\ TLess(allBenefits[j].targetDays, allBenefits[i].targetDays)
    /\ ret.value[1].name = "Anxiety About Health (down)"
    /\ ret.value[1].progress = 100

\* C22: the result of calculateStats is determined by its arguments (quit
\* date, current instant, cigarettesPerDay, costPerPack) alone: the same call
\* made with any other content of the preference store returns the same
\* result.
C22_StatsIgnoreStore ==
    ret.fn = "calculateStats"
    => /\ \A c \in CalcStoredCigarettes :
             calculateStats(ret.quitDate, ret.cigarettesPerDay, ret.costPerPack, now, tz,
                            [storage EXCEPT !.cigarettesPerDay = c]) = ret.value
       /\ \A p \in CalcStoredCost :
             calculateStats(ret.quitDate, ret.cigarettesPerDay, ret.costPerPack, now, tz,
                            [storage EXCEPT !.costPerPack = p]) = ret.value

(***************************************************************************)
(* The metrics functions called with a quit date that is not a date        *)
(***************************************************************************)
\* new Date(garbage), whose getTime() and getters are NaN, and null
NonDates == {"Invalid Date", "null"}

\* the two ways a call ends
Returned(v) == [threw |-> FALSE, value |-> v]
Thrown == [threw |-> TRUE, value |-> "TypeError"]

\* a NaN where a duration is expected
TimeNaN == [t |-> "nan", v |-> TZero]

\* calculateTimeElapsed: now - null is now - 0, a large positive number;
\* now - Invalid Date is NaN, which is not <= 0, so the floors are NaN
calculateTimeElapsedOfNonDate(quitDate, clock) ==
    IF quitDate = "null"
    THEN LET r == calculateTimeElapsed(TZero, clock)
         IN  Returned([days |-> Num(r.days), hours |-> Num(r.hours),
                       minutes |-> Num(r.minutes), seconds |-> Num(r.seconds),
                       totalMs |-> Num(r.totalMs)])
    ELSE Returned([days |-> NaN, hours |-> NaN, minutes |-> NaN, seconds |-> NaN,
                   totalMs |-> TimeNaN])

\* calculateStats: null.getFullYear() throws inside the try and the catch
\* returns the zeros; for an Invalid Date days is NaN and isNaN(days) returns
\* the zeros
calculateStatsOfNonDate(quitDate) == Returned(zeroStats)

\* calculateHealthRegeneration: null.getFullYear() throws and nothing catches
\* it; for an Invalid Date diff and days are NaN, no comparison is true, and
\* the loop stops at the first milestone
calculateHealthRegenerationOfNonDate(quitDate) ==
    IF quitDate = "null" THEN Thrown
    ELSE Returned([percentage |-> Num(0), days |-> NaN,
                   nextMilestone |-> SomeMilestone(milestones[1]),
                   timeToNext |-> [has |-> TRUE, v |-> TimeNaN]])

\* calculateHealthBenefits: null.getFullYear() throws and nothing catches it;
\* for an Invalid Date every progress is Math.min(100, Math.round(NaN))
calculateHealthBenefitsOfNonDate(quitDate) ==
    IF quitDate = "null" THEN Thrown
    ELSE LET benefits == sortByTargetDays(allBenefits)
         IN  Returned([i \in 1..Len(benefits) |->
                          [name |-> benefits[i].name, progress |-> NaN,
                           timeframe |-> benefits[i].timeframe,
                           category |-> benefits[i].category]])

CallTimeElapsedOfNonDate(q) ==
    /\ ret = NoCall
    /\ ret' = [fn |-> "calculateTimeElapsed", quitDate |-> q,
               result |-> calculateTimeElapsedOfNonDate(q, now)]
    /\ UNCHANGED <<now, tz, storage, appVars>>

CallStatsOfNonDate(q) ==
    /\ ret = NoCall
    /\ ret' = [fn |-> "calculateStats", quitDate |-> q,
               result |-> calculateStatsOfNonDate(q)]
    /\ UNCHANGED <<now, tz, storage, appVars>>

CallHealthRegenerationOfNonDate(q) ==
    /\ ret = NoCall
    /\ ret' = [fn |-> "calculateHealthRegeneration", quitDate |-> q,
               result |-> calculateHealthRegenerationOfNonDate(q)]
    /\ UNCHANGED <<now, tz, storage, appVars>>

CallHealthBenefitsOfNonDate(q) ==
    /\ ret = NoCall
    /\ ret' = [fn |-> "calculateHealthBenefits", quitDate |-> q,
               result |-> calculateHealthBenefitsOfNonDate(q)]
    /\ UNCHANGED <<now, tz, storage, appVars>>

NonDateNext ==
    \/ \E q \in NonDates : CallTimeElapsedOfNonDate(q)
    \/ \E q \in NonDates : CallStatsOfNonDate(q)
    \/ \E q \in NonDates : CallHealthRegenerationOfNonDate(q)
    \/ \E q \in NonDates : CallHealthBenefitsOfNonDate(q)

NonDateSpec == CalcInit /\ [][NonDateNext]_vars

\* C23: for a malformed quit date (an Invalid Date) or an absent one (null),
\* every metrics function returns its zero result and none throws: the
\* elapsed time all zeros, the stats all zeros, the health regeneration
\* percentage 0, days 0 and the first milestone 0.014 days ahead, every
\* benefit progress 0.
C23_ZeroForNonDate ==
    /\ ret.fn = "calculateStats"
         => ~ret.result.threw /\ ret.result.value = zeroStats
    /\ ret.fn = "calculateTimeElapsed"
         => /\ ~ret.result.threw
            /\ ret.result.value = [days |-> Num(0), hours |-> Num(0), minutes |-> Num(0),
                                   seconds |-> Num(0), totalMs |-> Num(TZero)]
    /\ ret.fn = "calculateHealthRegeneration"
         => /\ ~ret.result.threw
            /\ ret.result.value = [percentage |-> Num(0), days |-> Num(0),
                                   nextMilestone |-> SomeMilestone(milestones[1]),
                                   timeToNext |-> [has |-> TRUE, v |-> Num(milestones[1].days)]]
    /\ ret.fn = "calculateHealthBenefits"
         => /\ ~ret.result.threw
            /\ \A j \in DOMAIN ret.result.value : ret.result.value[j].progress = Num(0)

(***************************************************************************)
(* Stopping, reset and the setup form (checked under Spec)                 *)
(***************************************************************************)
\* C24: stopping the scheduler (the document becomes hidden, a re-render, a
\* confirmed reset) cancels the update interval, so no update() tick runs
\* until startTimer runs again; stopping when it is already stopped changes
\* nothing.
C24_StopCancels ==
    [][/\ ev'.op \in {"hidden", "reset"} =>
            /\ timerInterval' = 0
            /\ updateIntervals' = {}
       /\ (\/ ev'.op = "render"
           \/ ev'.op = "frame" /\ \E k \in DOMAIN pending : pending[k].kind = "render"
           \/ ev'.op = "startTracking" /\ errorModal' = "") =>
            /\ timerInterval # 0 => ev'.cleared = 1
            /\ \A i \in updateIntervals' : i.id = timerInterval'
            /\ Cardinality(updateIntervals') <= 1
       /\ timerInterval' = 0 => updateIntervals' = {}
       /\ ev'.op = "tick" =>
            /\ timerInterval # 0
            /\ \E i \in updateIntervals : i.id = timerInterval
       /\ clearTimer(clearTimer(S)) = clearTimer(S)
       /\ (ev'.op = "hidden" /\ timerInterval = 0) =>
            UNCHANGED <<storage, view, display, timerInterval, tipInterval, intervals,
                        lastHealthUpdate, cachedHealth, cachedHealthBenefits, modal,
                        pending>>
       /\ (ev'.op = "reset" /\ timerInterval = 0) => ev'.cleared = 0]_vars

\* the document has just become hidden and the handler has cancelled the
\* update interval that was scheduled
C24_Witness ==
    /\ ev.op = "hidden"
    /\ ev.cleared = 1
    /\ timerInterval = 0
    /\ view = "tracker"
    /\ updateIntervals = {}

\* the animation-frame callbacks about to run include a renderTracker()
RenderPending == \E k \in DOMAIN pending : pending[k].kind = "render"

setQuitDateOfValue(st, date) ==
    IF date.k # "date"
    THEN showErrorModal(st, "Unable to save quit date. Invalid date")
    ELSE setQuitDate(st, date.t)

\* the values setQuitDate is called with: null, an Invalid Date, the start
\* of the run, a second and a day after it, three weeks before it, and the
\* instant fifty years before it with its neighbours
SetDates ==
    {[k |-> "null", t |-> TZero], [k |-> "invalid", t |-> TZero],
     [k |-> "date", t |-> StartTime],
     [k |-> "date", t |-> TAdd(StartTime, Ms(1000))],
     [k |-> "date", t |-> TAdd(StartTime, Days(1))],
     [k |-> "date", t |-> T(20379, 36000000)],
     [k |-> "date", t |-> fiftyYearsBefore(StartTime)],
     [k |-> "date", t |-> TAdd(fiftyYearsBefore(StartTime), Ms(1000))],
     [k |-> "date", t |-> TSub(fiftyYearsBefore(StartTime), Ms(1))]}

SetDateInit ==
    /\ now = StartTime
    /\ tz \in AppZones
    /\ storage \in InitialStorages
    /\ AppIdle
    /\ ret = NoCall

CallSetQuitDate(date) ==
    /\ \E s \in {setQuitDateOfValue([S EXCEPT !.errorModal = ""], date)} :
          /\ storage' = s.storage
          /\ errorModal' = s.errorModal
    /\ ret' = [fn |-> "setQuitDate", date |-> date]
    /\ UNCHANGED <<now, tz, hidden, view, display, timerInterval, tipInterval,
                   intervals, lastHealthUpdate, cachedHealth, cachedHealthBenefits,
                   modal, pending, ev>>

SetDateAdvance ==
    /\ TLeq(TAdd(now, Ms(1000)), TAdd(StartTime, Ms(MaxSeconds * 1000)))
    /\ now' = TAdd(now, Ms(1000))
    /\ UNCHANGED <<tz, storage, appVars, ret>>

SetDateNext ==
    \/ \E date \in SetDates : CallSetQuitDate(date)
    \/ SetDateAdvance

SetDateSpec == SetDateInit /\ [][SetDateNext]_vars

\* the value is a valid Date, not later than the present instant and not
\* more than fifty years before it
Storable(date) ==
    /\ date.k = "date"
    /\ TLeq(date.t, now)
    /\ TLeq(fiftyYearsBefore(now), date.t)

\* C26: setQuitDate stores the date only if it is a valid date, not later
\* than the present instant and not more than 50 years before it; in every
\* other case the stored quit date is unchanged and an error is shown, so a
\* date stored by setQuitDate is never in the future when it is stored.
C26_SetQuitDateGuards ==
    [][ret'.fn = "setQuitDate" /\ now' = now =>
         /\ Storable(ret'.date) =>
               /\ storage'.quitDate = IsoDate(ret'.date.t)
               /\ errorModal' = ""
         /\ ~Storable(ret'.date) =>
               /\ storage' = storage
               /\ errorModal' # ""
         /\ storage'.quitDate # storage.quitDate =>
               /\ storage'.quitDate.valid
               /\ TLeq(storage'.quitDate.t, now')
         /\ storage'.nickname = storage.nickname
         /\ storage'.cigarettesPerDay = storage.cigarettesPerDay
         /\ storage'.costPerPack = storage.costPerPack]_vars

\* setQuitDate has refused a date in the future: the date stored before is
\* still stored and the error is shown
C26_Witness ==
    /\ ret.fn = "setQuitDate"
    /\ ret.date.k = "date"
    /\ TLess(now, ret.date.t)
    /\ errorModal = "Unable to save quit date. Date cannot be in the future"
    /\ storage.quitDate = IsoDate(T(20379, 36000000))

MilestoneStorages ==
    {[quitDate |-> IsoDate(TAdd(TSub(StartTime, target), Ms(2000))),
      nickname |-> Str(<<"A">>), cigarettesPerDay |-> Str(<<"2", "0">>),
      costPerPack |-> Str(<<"1", "0">>)] : target \in {Days(1), Days(5475)}}

MilestoneInit ==
    /\ now = StartTime
    /\ tz = [at |-> TZero, before |-> 0, after |-> 0]
    /\ storage \in MilestoneStorages
    /\ hidden \in BOOLEAN
    /\ view = "none"
    /\ display = NoDisplay
    /\ timerInterval = 0
    /\ tipInterval = 0
    /\ intervals = {}
    /\ lastHealthUpdate = TZero
    /\ cachedHealth = calculateHealthRegeneration(TZero, TZero, [at |-> TZero, before |-> 0, after |-> 0])
    /\ cachedHealthBenefits = <<>>
    /\ modal = NoModal
    /\ pending = <<>>
    /\ errorModal = ""
    /\ ev = NoEvent
    /\ ret = NoCall

MilestoneSpec == MilestoneInit /\ [][Next]_vars

\* C29: after every slow recomputation with the tracker displayed, the next
\* milestone's name displayed and the next milestone's time displayed are
\* those of the nextMilestone of the health regeneration just computed, also
\* after the elapsed time has passed a milestone while the tracker stays
\* displayed and after the final milestone is reached.
C29_NextMilestoneShown ==
    (ev.slow = 1 /\ view = "tracker" /\ \A i \in updateIntervals : i.els = "live")
    => IF cachedHealth.nextMilestone.has
       THEN /\ display.nextRegenerationName = cachedHealth.nextMilestone.m.name
            /\ display.nextRegenerationTime =
                   SomeTime(toMinuteLocal(TAdd(now, cachedHealth.timeToNext.v), tz))
       ELSE /\ display.nextRegenerationName = ""
            /\ display.nextRegenerationTime = NoTime

(***************************************************************************)
(* The positions of the benefits (checked under CalcSpec)                  *)
(***************************************************************************)
\* the names of the catalog in ascending targetDays, the entries of one
\* targetDays in the order of the catalog
benefitNames ==
    LET sorted == sortByTargetDays(allBenefits)
    IN  [i \in 1..Len(sorted) |-> sorted[i].name]

\* C30: the position of each benefit in the sequence calculateHealthBenefits
\* returns is the same for every quit date and present instant, degenerate or
\* not, so the index a benefit's card is rendered under is the index its
\* progress is published under later.
C30_SamePositions ==
    ret.fn = "calculateHealthBenefits"
    => [j \in 1..Len(ret.value) |-> ret.value[j].name] = benefitNames

\* a call in the degenerate branch: the benefit second in the order is
\* 'Heart Rate Normalizes', with progress 0
C30_Witness ==
    /\ ret.fn = "calculateHealthBenefits"
    /\ TLeq(utcDiff(ret.quitDate, now, tz), TZero)
    /\ ret.value[2].name = "Heart Rate Normalizes"
    /\ ret.value[2].progress = 0
    /\ allBenefits[1].name = "Heart Rate Normalizes"

=============================================================================
